---- MODULE Spec2Model ----
(***************************************************************************)
(* Model of the message-board micro service, src/src/services/             *)
(* micro_service.rs: MicroService::call and the functions it composes.     *)
(*                                                                         *)
(* Text that the program inspects (form values, query values) is a         *)
(* sequence of one-byte characters; text that the program emits (response  *)
(* bodies) is a string, whose Len is its byte length.  form_urlencoded's   *)
(* tokenising of a body or a query string is taken as given: a body or a   *)
(* query string is the sequence of (key, value) pairs it yields, in order. *)
(***************************************************************************)
EXTENDS Integers, Sequences, FiniteSets, TLC

VARIABLES messages, conns, last

vars == <<messages, conns, last>>

(***************************************************************************)
(* Bounds of the model.                                                    *)
(***************************************************************************)
\* rows the messages table may hold before inserts are cut off
MaxRows == 2
\* (key, value) pairs in one body or one query string
MaxPairs == 2
\* timestamps the database may assign are 1..MaxTs
MaxTs == 3

\* request futures that can be pending at once
Conns == {"c1", "c2"}

Timestamps == 1..MaxTs

(***************************************************************************)
(* Option<T>                                                               *)
(***************************************************************************)
None == [some |-> FALSE]
Some(v) == [some |-> TRUE, val |-> v]

(***************************************************************************)
(* Text helpers.                                                           *)
(***************************************************************************)
DigitChars == <<"0", "1", "2", "3", "4", "5", "6", "7", "8", "9">>

IsDigit(c) == \E i \in 1..10 : DigitChars[i] = c

DigitVal(c) == (CHOOSE i \in 1..10 : DigitChars[i] = c) - 1

RECURSIVE NatToString(_)
NatToString(n) ==
    IF n < 10 THEN DigitChars[n + 1]
    ELSE NatToString(n \div 10) \o DigitChars[(n % 10) + 1]

\* Display of an i64
I64ToString(n) == IF n < 0 THEN "-" \o NatToString(-n) ELSE NatToString(n)

RECURSIVE DigitsValue(_, _)
\* the value of a non-empty run of decimal digits, most significant first
DigitsValue(s, acc) ==
    IF s = <<>> THEN acc ELSE DigitsValue(Tail(s), acc * 10 + DigitVal(Head(s)))

\* str::parse::<i64>: an optional sign, then one or more decimal digits.
\* (Values here have too few digits to leave the range of an i64.)
parse_i64(s) ==
    IF s = <<>> THEN [ok |-> FALSE, err |-> "cannot parse integer from empty string"]
    ELSE LET signed == Head(s) \in {"+", "-"}
             digits == IF signed THEN Tail(s) ELSE s
         IN  IF digits = <<>>
             THEN [ok |-> FALSE, err |-> "cannot parse integer from empty string"]
             ELSE IF \E i \in 1..Len(digits) : ~IsDigit(digits[i])
             THEN [ok |-> FALSE, err |-> "invalid digit found in string"]
             ELSE [ok |-> TRUE,
                   val |-> IF Head(s) = "-" THEN 0 - DigitsValue(digits, 0)
                           ELSE DigitsValue(digits, 0)]

\* collect::<HashMap<String, String>>() of the parsed pairs: a later pair
\* with the same key replaces the earlier one
collect(pairs) ==
    LET keys == {pairs[i][1] : i \in 1..Len(pairs)}
        lastAt(k) == CHOOSE i \in 1..Len(pairs) :
                        /\ pairs[i][1] = k
                        /\ \A j \in (i + 1)..Len(pairs) : pairs[j][1] # k
    IN  [k \in keys |-> pairs[lastAt(k)][2]]

(***************************************************************************)
(* Responses.                                                              *)
(***************************************************************************)
\* Response::new(): 200, no headers, empty body
NewResponse == [status |-> 200, headers |-> <<>>, body |-> ""]

with_status(r, s) == [r EXCEPT !.status = s]
with_header(r, name, value) == [r EXCEPT !.headers = (name :> value) @@ @]
with_body(r, b) == [r EXCEPT !.body = b]

\* serde_json's rendering of {"error": msg}; the messages hold no character
\* that JSON escapes
JsonError(msg) == "{\"error\":\"" \o msg \o "\"}"

\* serde_json's rendering of {"timestamp": ts}
JsonTimestamp(ts) == "{\"timestamp\":" \o I64ToString(ts) \o "}"

make_error_response(error_message) ==
    LET payload == JsonError(error_message)
    IN  with_body(
          with_header(
            with_header(with_status(NewResponse, 500), "Content-Length", Len(payload)),
            "Content-Type", "application/json"),
          payload)

make_post_response(result) ==
    IF result.ok
    THEN LET payload == JsonTimestamp(result.val)
         IN  with_body(
               with_header(
                 with_header(NewResponse, "Content-Length", Len(payload)),
                 "Content-Type", "application/json"),
               payload)
    ELSE make_error_response(result.err)

\* maud's escaping of text spliced into markup
EscapeChar(c) ==
    CASE c = "&" -> "&amp;"
      [] c = "<" -> "&lt;"
      [] c = ">" -> "&gt;"
      [] c = "\"" -> "&quot;"
      [] OTHER -> c

RECURSIVE Escape(_)
Escape(s) == IF s = <<>> THEN "" ELSE EscapeChar(Head(s)) \o Escape(Tail(s))

RECURSIVE RenderItems(_)
RenderItems(rows) ==
    IF rows = <<>> THEN ""
    ELSE "<li>" \o Escape(Head(rows).username) \o " ("
         \o I64ToString(Head(rows).timestamp) \o "): "
         \o Escape(Head(rows).message) \o "</li>" \o RenderItems(Tail(rows))

render_html(rows) ==
    "<head><title>microservice</title><meta charset=\"utf-8\"></head><body><ul>"
    \o RenderItems(rows) \o "</ul></body>"

make_get_response(rows) ==
    IF rows.some
    THEN LET body == render_html(rows.val)
         IN  with_body(with_header(NewResponse, "Content-Length", Len(body)), body)
    ELSE with_status(NewResponse, 500)

(***************************************************************************)
(* Parsing of the request.                                                 *)
(***************************************************************************)
Anonymous == <<"a", "n", "o", "n", "y", "m", "o", "u", "s">>

\* parse_form as it would be with unwrap_or_default() for the username
parse_form_empty_default(form_chunk) ==
    LET form == collect(form_chunk)
    IN  IF "message" \in DOMAIN form
        THEN [ok |-> TRUE,
              val |-> [username |-> IF "username" \in DOMAIN form
                                    THEN form["username"] ELSE <<>>,
                       message |-> form["message"]]]
        ELSE [ok |-> FALSE, err |-> "Missing field message"]

\* parse_form as it would be with unwrap_or_default() for the message
parse_form_optional_message(form_chunk) ==
    LET form == collect(form_chunk)
    IN  [ok |-> TRUE,
         val |-> [username |-> IF "username" \in DOMAIN form
                               THEN form["username"] ELSE Anonymous,
                  message |-> IF "message" \in DOMAIN form
                              THEN form["message"] ELSE <<>>]]

parse_form(form_chunk) ==
    LET form == collect(form_chunk)
    IN  IF "message" \in DOMAIN form
        THEN [ok |-> TRUE,
              val |-> [username |-> IF "username" \in DOMAIN form
                                    THEN form["username"] ELSE Anonymous,
                       message |-> form["message"]]]
        ELSE [ok |-> FALSE, err |-> "Missing field message"]

\* parse_query as it would be if a bad `after` were dropped (.ok()) instead
\* of reported
parse_query_lenient_after(query) ==
    LET args == collect(query)
        before == IF "before" \in DOMAIN args THEN Some(parse_i64(args["before"])) ELSE None
        after == IF "after" \in DOMAIN args THEN Some(parse_i64(args["after"])) ELSE None
    IN  IF before.some /\ ~before.val.ok
        THEN [ok |-> FALSE, err |-> "Error parsing 'before: " \o before.val.err]
        ELSE [ok |-> TRUE,
              val |-> [before |-> IF before.some THEN Some(before.val.val) ELSE None,
                       after |-> IF after.some /\ after.val.ok
                                 THEN Some(after.val.val) ELSE None]]

parse_query(query) ==
    LET args == collect(query)
        before == IF "before" \in DOMAIN args THEN Some(parse_i64(args["before"])) ELSE None
        after == IF "after" \in DOMAIN args THEN Some(parse_i64(args["after"])) ELSE None
    IN  IF before.some /\ ~before.val.ok
        THEN [ok |-> FALSE, err |-> "Error parsing 'before: " \o before.val.err]
        ELSE IF after.some /\ ~after.val.ok
        THEN [ok |-> FALSE, err |-> "Error parsing 'after': " \o after.val.err]
        ELSE [ok |-> TRUE,
              val |-> [before |-> IF before.some THEN Some(before.val.val) ELSE None,
                       after |-> IF after.some THEN Some(after.val.val) ELSE None]]

(***************************************************************************)
(* Storage.                                                                *)
(***************************************************************************)
RECURSIVE Filter(_, _, _)
\* the rows of table, in table order, that pass both tests
Filter(table, lt, gt) ==
    IF table = <<>> THEN <<>>
    ELSE LET m == Head(table)
             rest == Filter(Tail(table), lt, gt)
         IN  IF (lt.some => m.timestamp < lt.val) /\ (gt.some => m.timestamp > gt.val)
             THEN <<m>> \o rest ELSE rest

\* query_db as it would be with le and ge in place of lt and gt
query_db_inclusive(time_range, table, loaded) ==
    LET Keep(m) ==
            /\ time_range.before.some => m.timestamp <= time_range.before.val
            /\ time_range.after.some => m.timestamp >= time_range.after.val
    IN  IF loaded THEN Some(SelectSeq(table, Keep)) ELSE None

\* loaded: whether the database answers the query
query_db(time_range, table, loaded) ==
    LET before == time_range.before
        after == time_range.after
        query_result ==
            CASE before.some /\ after.some -> Filter(table, before, after)
              [] before.some /\ ~after.some -> Filter(table, before, None)
              [] ~before.some /\ after.some -> Filter(table, None, after)
              [] OTHER -> table
    IN  IF loaded THEN Some(query_result) ELSE None

\* INSERT ... RETURNING timestamp: the row as the database stores it, given
\* the timestamp its column default assigns
InsertedRow(new_message, ts) ==
    [username |-> new_message.username, message |-> new_message.message,
     timestamp |-> ts]

\* write_to_db as it would be if it returned the count of rows written
\* (execute) instead of the returned column (get_result)
write_to_db_row_count(stored) ==
    IF stored.some THEN [ok |-> TRUE, val |-> 1]
    ELSE [ok |-> FALSE, err |-> "service error"]

\* stored: the timestamp the database returns, or None when the insert fails
write_to_db(stored) ==
    IF stored.some THEN [ok |-> TRUE, val |-> stored.val]
    ELSE [ok |-> FALSE, err |-> "service error"]

(***************************************************************************)
(* Requests.                                                               *)
(***************************************************************************)
RECURSIVE SeqsUpTo(_, _)
\* the sequences over S of length at most n
SeqsUpTo(S, n) ==
    IF n = 0 THEN {<<>>}
    ELSE LET shorter == SeqsUpTo(S, n - 1)
         IN  shorter \cup {Append(s, x) : s \in shorter, x \in S}

FormPairs == {<<"message", <<"h", "i">>>>, <<"username", <<"<", "b", ">">>>>}

QueryPairs == {<<"before", <<"3">>>>, <<"before", <<"x">>>>,
               <<"after", <<"1">>>>, <<"after", <<"x">>>>}

Bodies == SeqsUpTo(FormPairs, MaxPairs)

Queries == {None} \cup {Some(q) : q \in SeqsUpTo(QueryPairs, MaxPairs)}

Routes == {"GET", "POST", "PUT"} \X {"/", "/x"}

\* IsPost as it would be if call matched on the method alone
IsPost_any_path(req) == req.method = "POST"

IsPost(req) == req.method = "POST" /\ req.path = "/"
IsGet(req) == req.method = "GET" /\ req.path = "/"

PostRequest(b) == [method |-> "POST", path |-> "/", query |-> None, body |-> b]
GetRequest(q) == [method |-> "GET", path |-> "/", query |-> q, body |-> <<>>]
\* a request to a route the service does not serve; it carries a valid form
OtherRequest(r) ==
    [method |-> r[1], path |-> r[2], query |-> None,
     body |-> <<<<"message", <<"h", "i">>>>>>]

\* every form body, with one read of the whole table and every unserved route
WriteRequests ==
    {PostRequest(b) : b \in Bodies}
    \cup {GetRequest(None)}
    \cup {OtherRequest(r) : r \in Routes \ {<<"POST", "/">>, <<"GET", "/">>}}

\* every query string, with one valid form and one unserved route
ReadRequests ==
    {GetRequest(q) : q \in Queries}
    \cup {PostRequest(<<<<"message", <<"h", "i">>>>>>)}
    \cup {OtherRequest(<<"GET", "/x">>)}

\* a valid form, a form without `message`, one read and one unserved route
MixedRequests ==
    {PostRequest(<<<<"message", <<"h", "i">>>>>>), PostRequest(<<>>),
     GetRequest(None), OtherRequest(<<"POST", "/x">>)}

NoRequest == [method |-> "none"]
NoExchange == [req |-> NoRequest]

\* What one call of the service did.
\*   req        the request
\*   connected  whether connect_to_db returned a connection
\*   read       how reading the body ended: "none" (never read), "complete",
\*              "failed" or "dropped"
\*   answered   whether a response was produced, and resp that response
\*   parsed     calls of parse_form
\*   inserts    calls of write_to_db, and stored the timestamp the database
\*              returned (None when it stored nothing)
\*   queries    calls of query_db
Exchange(req, connected, read, resp, parsed, inserts, stored, queries) ==
    [req |-> req, connected |-> connected, read |-> read,
     answered |-> read # "dropped", resp |-> resp,
     parsed |-> parsed, inserts |-> inserts, stored |-> stored, queries |-> queries]

(***************************************************************************)
(* The service.                                                            *)
(***************************************************************************)
Init ==
    /\ messages = <<>>
    /\ conns = [c \in Conns |-> NoRequest]
    /\ last = NoExchange

\* ConnectFails as it would be if call matched the route before it connected
ConnectFails_after_match(req) ==
    /\ last' = Exchange(req, FALSE, "none",
                    with_status(NewResponse,
                                IF IsPost(req) \/ IsGet(req) THEN 500 ELSE 404),
                    0, 0, None, 0)
    /\ UNCHANGED <<messages, conns>>

\* call: connect_to_db() returns None
ConnectFails(req) ==
    /\ last' = Exchange(req, FALSE, "none", with_status(NewResponse, 500), 0, 0, None, 0)
    /\ UNCHANGED <<messages, conns>>

\* call, (&Post, "/"): the future that reads the body is returned, pending
PostRoute(req, c) ==
    /\ IsPost(req)
    /\ conns[c] = NoRequest
    /\ conns' = [conns EXCEPT ![c] = req]
    /\ UNCHANGED <<messages, last>>

\* call, (&Get, "/")
GetRoute(req) ==
    /\ IsGet(req)
    /\ LET time_range == IF req.query.some THEN parse_query(req.query.val)
                         ELSE [ok |-> TRUE, val |-> [before |-> None, after |-> None]]
       IN  IF time_range.ok
           THEN \E loaded \in BOOLEAN :
                  last' = Exchange(req, TRUE, "none",
                              make_get_response(query_db(time_range.val, messages, loaded)),
                              0, 0, None, 1)
           ELSE last' = Exchange(req, TRUE, "none", make_error_response(time_range.err),
                                 0, 0, None, 0)
    /\ UNCHANGED <<messages, conns>>

\* NotFound as it would be without with_status
NotFound_default_status(req) ==
    /\ ~IsPost(req) /\ ~IsGet(req)
    /\ last' = Exchange(req, TRUE, "none", NewResponse, 0, 0, None, 0)
    /\ UNCHANGED <<messages, conns>>

\* call, any other method and path
NotFound(req) ==
    /\ ~IsPost(req) /\ ~IsGet(req)
    /\ last' = Exchange(req, TRUE, "none", with_status(NewResponse, 404), 0, 0, None, 0)
    /\ UNCHANGED <<messages, conns>>

\* call, with free the request futures that may be taken
Call(req, free) ==
    \/ ConnectFails(req)
    \/ \E c \in free : PostRoute(req, c)
    \/ GetRoute(req)
    \/ NotFound(req)

\* the body is complete: concat2 resolves, then parse_form, write_to_db and
\* make_post_response run
BodyComplete(c) ==
    /\ conns[c] # NoRequest
    /\ conns' = [conns EXCEPT ![c] = NoRequest]
    /\ LET req == conns[c]
           new_message == parse_form(req.body)
       IN  IF new_message.ok
           THEN \/ \E ts \in Timestamps :
                     /\ Len(messages) < MaxRows
                     /\ messages' = Append(messages, InsertedRow(new_message.val, ts))
                     /\ last' = Exchange(req, TRUE, "complete",
                                    make_post_response(write_to_db(Some(ts))),
                                    1, 1, Some(ts), 0)
                \/ /\ messages' = messages
                   /\ last' = Exchange(req, TRUE, "complete",
                                  make_post_response(write_to_db(None)), 1, 1, None, 0)
           ELSE /\ messages' = messages
                /\ last' = Exchange(req, TRUE, "complete", make_post_response(new_message),
                                    1, 0, None, 0)

\* what hyper reports when the body cannot be read to its end
BodyErrors == {"message is incomplete"}

\* BodyFails as it would be if the stages after concat2 were chained with
\* then instead of and_then, and so ran on what had been read
BodyFails_then(c) ==
    /\ conns[c] # NoRequest
    /\ conns' = [conns EXCEPT ![c] = NoRequest]
    /\ LET req == conns[c]
           new_message == parse_form(req.body)
       IN  IF new_message.ok /\ Len(messages) < MaxRows
           THEN \E ts \in Timestamps :
                  /\ messages' = Append(messages, InsertedRow(new_message.val, ts))
                  /\ last' = Exchange(req, TRUE, "failed",
                                 make_post_response(write_to_db(Some(ts))),
                                 1, 1, Some(ts), 0)
           ELSE /\ messages' = messages
                /\ last' = Exchange(req, TRUE, "failed", make_post_response(new_message),
                                    1, 0, None, 0)

\* reading the body fails: concat2 resolves to an error, which skips both
\* and_then stages and reaches make_post_response
BodyFails(c) ==
    /\ conns[c] # NoRequest
    /\ conns' = [conns EXCEPT ![c] = NoRequest]
    /\ \E e \in BodyErrors :
         last' = Exchange(conns[c], TRUE, "failed",
                     make_post_response([ok |-> FALSE, err |-> e]), 0, 0, None, 0)
    /\ UNCHANGED messages

\* the inbound connection goes away and the pending future is dropped
Dropped(c) ==
    /\ conns[c] # NoRequest
    /\ conns' = [conns EXCEPT ![c] = NoRequest]
    /\ last' = Exchange(conns[c], TRUE, "dropped", NewResponse, 0, 0, None, 0)
    /\ UNCHANGED messages

\* the steps of the requests whose futures are pending
Pending ==
    \/ \E c \in Conns : BodyComplete(c)
    \/ \E c \in Conns : BodyFails(c)
    \/ \E c \in Conns : Dropped(c)

NextWrite == (\E req \in WriteRequests : Call(req, {"c1"})) \/ Pending

NextRead == (\E req \in ReadRequests : Call(req, {"c1"})) \/ Pending

NextMixed == (\E req \in MixedRequests : Call(req, Conns)) \/ Pending

\* one client at a time, with requests that exercise the write path
SpecWrite == Init /\ [][NextWrite]_vars

\* one client at a time, with requests that exercise the read path
SpecRead == Init /\ [][NextRead]_vars

\* concurrent clients
SpecMixed == Init /\ [][NextMixed]_vars

(***************************************************************************)
(* Vocabulary of the properties.                                           *)
(***************************************************************************)
RECURSIVE Str(_)
\* the string made of the characters of s
Str(s) == IF s = <<>> THEN "" ELSE Head(s) \o Str(Tail(s))

HasKey(pairs, k) == \E i \in 1..Len(pairs) : pairs[i][1] = k

ValuesOf(pairs, k) == {pairs[i][2] : i \in {j \in 1..Len(pairs) : pairs[j][1] = k}}

\* the error texts the service can put in a JSON error body
ErrorTexts ==
    {"Missing field message", "service error"} \cup BodyErrors
    \cup {"Error parsing 'before: invalid digit found in string",
          "Error parsing 'after': invalid digit found in string",
          "Error parsing 'before: cannot parse integer from empty string",
          "Error parsing 'after': cannot parse integer from empty string"}

\* the two routes the service serves
PostRoot(req) == <<req.method, req.path>> = <<"POST", "/">>
GetRoot(req) == <<req.method, req.path>> = <<"GET", "/">>
Served(req) == PostRoot(req) \/ GetRoot(req)

\* the value of the last pair of pairs whose key is k
LastValue(pairs, k) ==
    LET at == {i \in 1..Len(pairs) : pairs[i][1] = k}
    IN  pairs[CHOOSE i \in at : \A j \in at : j <= i][2]

\* the time range a query string asks for, once it has parsed
RangeOf(query) ==
    IF query.some THEN parse_query(query.val).val ELSE [before |-> None, after |-> None]

\* the rows of table, in table order, whose timestamps lie strictly inside
\* the time range
Matching(table, time_range) ==
    LET before == time_range.before
        after == time_range.after
        Selected(m) == /\ before.some => m.timestamp < before.val
                       /\ after.some => m.timestamp > after.val
    IN  SelectSeq(table, Selected)

HasHeader(resp, name) == name \in DOMAIN resp.headers

\* a 500 whose body is the JSON object {"error": ...}
IsJsonError(resp) ==
    /\ resp.status = 500
    /\ \E t \in ErrorTexts : resp.body = JsonError(t)

\* a response of the given status with no headers and an empty body
IsBare(resp, status) ==
    resp.status = status /\ resp.body = "" /\ DOMAIN resp.headers = {}

IsExchange(e) == e # NoExchange

\* this step is a call that ended at once; last' is its exchange
Answers == conns' = conns /\ last' # last

\* this step ends the pending request of c; last' is its exchange
Completes(c) == conns[c] # NoRequest /\ conns'[c] = NoRequest

\* this step ends an exchange, which last' records
Finishes == Answers \/ \E c \in Conns : Completes(c)

\* the table after the step is the table before it with rows appended
Extends == /\ Len(messages') >= Len(messages)
           /\ SubSeq(messages', 1, Len(messages)) = messages

NewRow == messages'[Len(messages')]

(***************************************************************************)
(* C1.  A POST / whose body holds `message`, for which the connection is   *)
(* acquired and the insert succeeds, adds exactly one row to the table,    *)
(* and the timestamp of the 200 response {"timestamp": N} is the           *)
(* timestamp of that row.                                                  *)
(***************************************************************************)
C1_PostPersistsOneRow ==
    [][\A c \in Conns :
         (/\ Completes(c)
          /\ PostRoot(conns[c])
          /\ HasKey(conns[c].body, "message")
          /\ last'.connected
          /\ last'.stored.some)
         => /\ last'.req = conns[c]
            /\ last'.inserts = 1
            /\ Len(messages') = Len(messages) + 1
            /\ Extends
            /\ NewRow.timestamp = last'.stored.val
            /\ last'.resp.status = 200
            /\ last'.resp.body = JsonTimestamp(NewRow.timestamp)]_vars

\* a second row has just been stored and acknowledged with its timestamp
C1_Witness ==
    /\ IsExchange(last)
    /\ PostRoot(last.req)
    /\ last.stored.some
    /\ Len(messages) >= 2
    /\ last.resp.status = 200
    /\ last.resp.body = JsonTimestamp(messages[Len(messages)].timestamp)
    /\ messages[Len(messages)].timestamp # messages[1].timestamp

(***************************************************************************)
(* C2.  A POST / whose body does not hold `message` leaves the table       *)
(* unchanged, never calls insert, and is answered with status 500 and a    *)
(* JSON {"error": ...} body.                                               *)
(***************************************************************************)
\* the claim as stated, for every answered POST / without `message`
C2_AsStated ==
    (/\ IsExchange(last)
     /\ PostRoot(last.req)
     /\ last.answered
     /\ ~HasKey(last.req.body, "message"))
    => /\ last.inserts = 0
       /\ IsJsonError(last.resp)

\* C2 as amended: the table is unchanged, insert is never called and the
\* status is 500; the body is the JSON {"error": ...} when the storage
\* connection was acquired, and empty when its acquisition failed.
C2_MissingMessage ==
    [][(/\ Finishes
        /\ PostRoot(last'.req)
        /\ last'.answered
        /\ ~HasKey(last'.req.body, "message"))
       => /\ messages' = messages
          /\ last'.inserts = 0
          /\ ~last'.stored.some
          /\ last'.resp.status = 500
          /\ (last'.connected => IsJsonError(last'.resp))
          /\ (~last'.connected => IsBare(last'.resp, 500))]_vars

\* a body that was read to its end and holds only a username is refused
C2_Witness ==
    /\ IsExchange(last)
    /\ PostRoot(last.req)
    /\ last.read = "complete"
    /\ HasKey(last.req.body, "username")
    /\ ~HasKey(last.req.body, "message")
    /\ last.resp.body = JsonError("Missing field message")
    /\ last.inserts = 0

(***************************************************************************)
(* C8.  For a POST / body that holds `message`, the stored row has the     *)
(* username "anonymous" when the body holds no `username` and the          *)
(* submitted username when it holds one; its message is the submitted      *)
(* message.                                                                *)
(***************************************************************************)
C8_StoredFields ==
    [][\A c \in Conns :
         (/\ Completes(c)
          /\ PostRoot(conns[c])
          /\ HasKey(conns[c].body, "message")
          /\ last'.stored.some)
         => /\ Len(messages') = Len(messages) + 1
            /\ NewRow.message \in ValuesOf(conns[c].body, "message")
            /\ (HasKey(conns[c].body, "username")
                  => NewRow.username \in ValuesOf(conns[c].body, "username"))
            /\ (~HasKey(conns[c].body, "username")
                  => Str(NewRow.username) = "anonymous")]_vars

\* the table holds a row stored without a username and one stored with it
C8_Witness ==
    /\ Len(messages) = 2
    /\ Str(messages[1].username) = "anonymous"
    /\ Str(messages[2].username) = "<b>"
    /\ Str(messages[2].message) = "hi"
    /\ IsExchange(last)
    /\ last.stored.some
    /\ HasKey(last.req.body, "username")

(***************************************************************************)
(* C3.  A successful GET / returns exactly the persisted messages m with   *)
(* (before absent or m.timestamp < before) and (after absent or            *)
(* m.timestamp > after); with no query string, or neither key, all of      *)
(* them.                                                                   *)
(***************************************************************************)
C3_ReadReturnsRange ==
    [][(/\ Answers
        /\ GetRoot(last'.req)
        /\ last'.connected
        /\ last'.resp.status = 200)
       => /\ last'.req.query.some => parse_query(last'.req.query.val).ok
          /\ last'.queries = 1
          /\ last'.resp.body = render_html(Matching(messages, RangeOf(last'.req.query)))]_vars

\* of two stored rows, a read with both bounds returned exactly one
C3_Witness ==
    /\ IsExchange(last)
    /\ GetRoot(last.req)
    /\ last.resp.status = 200
    /\ last.req.query.some
    /\ HasKey(last.req.query.val, "before")
    /\ HasKey(last.req.query.val, "after")
    /\ Len(messages) = 2
    /\ messages[1].timestamp = 3
    /\ messages[2].timestamp = 2
    /\ last.resp.body = render_html(<<messages[2]>>)

(***************************************************************************)
(* C4.  A GET / whose query string holds a `before` or an `after` key with *)
(* a value that is not a valid integer is answered with status 500 and a   *)
(* JSON error body, and no storage query is made for it, whether or not    *)
(* the other bound is present and valid.                                   *)
(***************************************************************************)
\* the claim as stated, for any pair of the query string
C4_AsStated ==
    (/\ IsExchange(last)
     /\ GetRoot(last.req)
     /\ last.req.query.some
     /\ \E i \in 1..Len(last.req.query.val) :
          /\ last.req.query.val[i][1] \in {"before", "after"}
          /\ ~parse_i64(last.req.query.val[i][2]).ok)
    => /\ last.queries = 0
       /\ IsJsonError(last.resp)

\* C4 as amended: the value that counts is that of the last pair with the
\* key; no storage query is made and the status is 500; the body is the JSON
\* error when the storage connection was acquired, and empty when its
\* acquisition failed.
C4_InvalidBound ==
    (/\ IsExchange(last)
     /\ GetRoot(last.req)
     /\ last.req.query.some
     /\ \E k \in {"before", "after"} :
          /\ HasKey(last.req.query.val, k)
          /\ ~parse_i64(LastValue(last.req.query.val, k)).ok)
    => /\ last.queries = 0
       /\ last.resp.status = 500
       /\ (last.connected => IsJsonError(last.resp))
       /\ (~last.connected => IsBare(last.resp, 500))

\* a valid `before` with a bad `after` is refused before any query
C4_Witness ==
    /\ IsExchange(last)
    /\ GetRoot(last.req)
    /\ last.req.query = Some(<<<<"before", <<"3">>>>, <<"after", <<"x">>>>>>)
    /\ last.connected
    /\ last.queries = 0
    /\ last.resp.body = JsonError("Error parsing 'after': invalid digit found in string")

(***************************************************************************)
(* C5.  A request whose method and path are neither POST / nor GET / is    *)
(* answered 404 with an empty body, with no body processing and no change  *)
(* to the table.                                                           *)
(***************************************************************************)
\* the claim as stated, for every such request
C5_AsStated ==
    (IsExchange(last) /\ ~Served(last.req))
    => /\ IsBare(last.resp, 404)
       /\ last.read = "none"
       /\ last.parsed = 0

\* C5 as amended: the answer is 404 with an empty body when the storage
\* connection was acquired and 500 with an empty body when its acquisition
\* failed; the body is not processed and the table not changed in either
\* case.
C5_NotFound ==
    [][(Finishes /\ ~Served(last'.req))
       => /\ last'.connected => IsBare(last'.resp, 404)
          /\ ~last'.connected => IsBare(last'.resp, 500)
          /\ last'.read = "none"
          /\ last'.parsed = 0
          /\ last'.inserts = 0
          /\ last'.queries = 0
          /\ messages' = messages]_vars

\* a POST to another path, carrying a valid form, got 404 and stored nothing
C5_Witness ==
    /\ IsExchange(last)
    /\ last.req.method = "POST"
    /\ last.req.path = "/x"
    /\ HasKey(last.req.body, "message")
    /\ last.connected
    /\ IsBare(last.resp, 404)
    /\ last.inserts = 0
    /\ messages = <<>>

(***************************************************************************)
(* C6.  Whatever the method and path, when the storage connection cannot   *)
(* be acquired the answer is a 500 and no handler runs: the body is not    *)
(* read or parsed, nothing is inserted or queried, the table is unchanged. *)
(***************************************************************************)
C6_ConnectFailure ==
    [][(Finishes /\ ~last'.connected)
       => /\ IsBare(last'.resp, 500)
          /\ last'.read = "none"
          /\ last'.parsed = 0
          /\ last'.inserts = 0
          /\ ~last'.stored.some
          /\ last'.queries = 0
          /\ conns' = conns
          /\ messages' = messages]_vars

\* an unserved route was answered 500 for want of a connection
C6_Witness ==
    /\ IsExchange(last)
    /\ ~Served(last.req)
    /\ ~last.connected
    /\ IsBare(last.resp, 500)
    /\ Len(messages) >= 1

(***************************************************************************)
(* C7.  Every response with a JSON or HTML body has a content-length       *)
(* header equal to the byte length of the body and a content-type header   *)
(* that fits it: JSON for the JSON bodies, HTML for the message list.      *)
(***************************************************************************)
C7_AsStated ==
    (IsExchange(last) /\ last.answered /\ last.resp.body # "")
    => /\ HasHeader(last.resp, "Content-Length")
       /\ last.resp.headers["Content-Length"] = Len(last.resp.body)
       /\ HasHeader(last.resp, "Content-Type")
       /\ last.resp.headers["Content-Type"] =
            IF GetRoot(last.req) /\ last.resp.status = 200
            THEN "text/html" ELSE "application/json"

(***************************************************************************)
(* C9.  The table is append-only: a stored row stays, unchanged; every row *)
(* has a timestamp; and only a successful POST / insert changes the table. *)
(***************************************************************************)
C9_AppendOnly ==
    [][/\ Extends
       /\ \A i \in 1..Len(messages') : messages'[i].timestamp \in Int
       /\ messages' # messages
            => \E c \in Conns :
                 /\ Completes(c)
                 /\ PostRoot(conns[c])
                 /\ last'.req = conns[c]
                 /\ last'.read = "complete"
                 /\ last'.stored.some
                 /\ last'.resp.status = 200
                 /\ Len(messages') = Len(messages) + 1]_vars

\* after two inserts, a read and a failed write have left both rows in place
C9_Witness ==
    /\ Len(messages) = 2
    /\ IsExchange(last)
    /\ PostRoot(last.req)
    /\ last.resp.status = 500
    /\ \E c \in Conns : conns[c] # NoRequest

(***************************************************************************)
(* C10.  On POST / the insert comes only after the whole body was read and *)
(* parsed: when reading fails, or the connection is dropped before the     *)
(* body is complete, the handler ends without an insert and the table is   *)
(* unchanged, whatever other requests are handled meanwhile.               *)
(***************************************************************************)
C10_InsertAfterBody ==
    [][(Finishes /\ PostRoot(last'.req))
       => /\ last'.inserts > 0
            => /\ last'.read = "complete"
               /\ last'.parsed = 1
               /\ HasKey(last'.req.body, "message")
          /\ last'.read \in {"failed", "dropped"}
            => /\ last'.inserts = 0
               /\ ~last'.stored.some
               /\ messages' = messages]_vars

\* a valid form whose body could not be read stored nothing, while another
\* request was pending and another had stored a row
C10_Witness ==
    /\ IsExchange(last)
    /\ PostRoot(last.req)
    /\ HasKey(last.req.body, "message")
    /\ last.read = "failed"
    /\ last.inserts = 0
    /\ Len(messages) = 1
    /\ \E c \in Conns : conns[c] # NoRequest

====
